---- MODULE Spec2Model ----
(***************************************************************************)
(* Two-player WORDLE room server (src/index.js): the room registry, the    *)
(* player registry, the socket handlers and the guess evaluation.          *)
(*                                                                         *)
(* A word is a sequence of one-character strings.  `rooms` is the room     *)
(* registry (room id -> room object) and `players` the player registry.    *)
(* A submitGuess handler suspended on its word lookup keeps the room       *)
(* object it read before suspending: `pending` holds, for each suspended   *)
(* handler, the key of that object, which is its room id while the object  *)
(* is the one registered under that id, the key of an entry of `orphans`   *)
(* once createRoom has replaced it in the registry, and Gone once the      *)
(* registry has deleted it (its player list is then empty for good, so     *)
(* nothing done to it can be observed).                                    *)
(***************************************************************************)
EXTENDS Bags, FiniteSets, Integers, Sequences, TLC

VARIABLES sockets, groups, rooms, orphans, players, pending, sent

vars == <<sockets, groups, rooms, orphans, players, pending, sent>>

-----------------------------------------------------------------------------
(* Bounds of the model *)

\* in-flight submitGuess word lookups at any one time
MaxPending == 2

\* the same, in the specification of the registry
MaxPendingRegistry == 1

\* every connection id the model uses
AllConns == {"s1", "s2", "s3"}

\* every value generateRoomId may return and joinRoom may be called with
AllRoomIds == {"R1", "R2"}

-----------------------------------------------------------------------------
(* Program constants *)

\* a player's guess limit
MaxGuesses == 6

\* length of a word
WordLen == 5

NULL == "null"

UpperLetters ==
  {"A", "B", "C", "D", "E", "F", "G", "H", "I", "J", "K", "L", "M",
   "N", "O", "P", "Q", "R", "S", "T", "U", "V", "W", "X", "Y", "Z"}

ABOUT == <<"A", "B", "O", "U", "T">>
ABOVE == <<"A", "B", "O", "V", "E">>
ADOBE == <<"A", "D", "O", "B", "E">>
ZZZZZ == <<"Z", "Z", "Z", "Z", "Z">>
LowerAbout == <<"a", "b", "o", "u", "t">>
DREAM == <<"D", "R", "E", "A", "M">>
ABIDE == <<"A", "B", "I", "D", "E">>
ShortWord == <<"A", "B", "O", "U">>

\* letters in alphabetical order, for String.prototype.toUpperCase
UpperAlphabet ==
  <<"A", "B", "C", "D", "E", "F", "G", "H", "I", "J", "K", "L", "M",
    "N", "O", "P", "Q", "R", "S", "T", "U", "V", "W", "X", "Y", "Z">>

LowerAlphabet ==
  <<"a", "b", "c", "d", "e", "f", "g", "h", "i", "j", "k", "l", "m",
    "n", "o", "p", "q", "r", "s", "t", "u", "v", "w", "x", "y", "z">>

\* the candidate list, all of its 524 words in the order of the source
VALID_WORDS ==
  {
   <<"A", "B", "O", "U", "T">>, <<"A", "B", "O", "V", "E">>, <<"A", "B", "U", "S", "E">>,
   <<"A", "C", "T", "O", "R">>, <<"A", "C", "U", "T", "E">>, <<"A", "D", "M", "I", "T">>,
   <<"A", "D", "O", "P", "T">>, <<"A", "D", "U", "L", "T">>, <<"A", "F", "T", "E", "R">>,
   <<"A", "G", "A", "I", "N">>, <<"A", "G", "E", "N", "T">>, <<"A", "G", "R", "E", "E">>,
   <<"A", "H", "E", "A", "D">>, <<"A", "L", "A", "R", "M">>, <<"A", "L", "B", "U", "M">>,
   <<"A", "L", "E", "R", "T">>, <<"A", "L", "I", "E", "N">>, <<"A", "L", "I", "G", "N">>,
   <<"A", "L", "I", "K", "E">>, <<"A", "L", "I", "V", "E">>, <<"A", "L", "L", "O", "W">>,
   <<"A", "L", "O", "N", "E">>, <<"A", "L", "O", "N", "G">>, <<"A", "L", "T", "E", "R">>,
   <<"A", "M", "O", "N", "G">>, <<"A", "N", "G", "E", "R">>, <<"A", "N", "G", "L", "E">>,
   <<"A", "N", "G", "R", "Y">>, <<"A", "P", "A", "R", "T">>, <<"A", "P", "P", "L", "E">>,
   <<"A", "P", "P", "L", "Y">>, <<"A", "R", "E", "N", "A">>, <<"A", "R", "G", "U", "E">>,
   <<"A", "R", "I", "S", "E">>, <<"A", "R", "R", "A", "Y">>, <<"A", "S", "I", "D", "E">>,
   <<"A", "S", "S", "E", "T">>, <<"A", "V", "O", "I", "D">>, <<"A", "W", "A", "K", "E">>,
   <<"A", "W", "A", "R", "D">>, <<"A", "W", "A", "R", "E">>, <<"B", "A", "K", "E", "R">>,
   <<"B", "A", "S", "E", "S">>, <<"B", "A", "S", "I", "C">>, <<"B", "E", "A", "C", "H">>,
   <<"B", "E", "G", "A", "N">>, <<"B", "E", "G", "I", "N">>, <<"B", "E", "I", "N", "G">>,
   <<"B", "E", "N", "C", "H">>, <<"B", "I", "R", "T", "H">>, <<"B", "L", "A", "C", "K">>,
   <<"B", "L", "A", "M", "E">>, <<"B", "L", "A", "N", "K">>, <<"B", "L", "A", "S", "T">>,
   <<"B", "L", "I", "N", "D">>, <<"B", "L", "O", "C", "K">>, <<"B", "L", "O", "O", "D">>,
   <<"B", "O", "A", "R", "D">>, <<"B", "O", "O", "S", "T">>, <<"B", "O", "O", "T", "H">>,
   <<"B", "O", "U", "N", "D">>, <<"B", "R", "A", "I", "N">>, <<"B", "R", "A", "N", "D">>,
   <<"B", "R", "E", "A", "D">>, <<"B", "R", "E", "A", "K">>, <<"B", "R", "E", "E", "D">>,
   <<"B", "R", "I", "E", "F">>, <<"B", "R", "I", "N", "G">>, <<"B", "R", "O", "A", "D">>,
   <<"B", "R", "O", "K", "E">>, <<"B", "R", "O", "W", "N">>, <<"B", "U", "I", "L", "D">>,
   <<"B", "U", "I", "L", "T">>, <<"B", "U", "Y", "E", "R">>, <<"C", "A", "B", "L", "E">>,
   <<"C", "A", "L", "I", "F">>, <<"C", "A", "R", "R", "Y">>, <<"C", "A", "T", "C", "H">>,
   <<"C", "A", "U", "S", "E">>, <<"C", "H", "A", "I", "N">>, <<"C", "H", "A", "I", "R">>,
   <<"C", "H", "A", "O", "S">>, <<"C", "H", "A", "R", "M">>, <<"C", "H", "A", "R", "T">>,
   <<"C", "H", "A", "S", "E">>, <<"C", "H", "E", "A", "P">>, <<"C", "H", "E", "C", "K">>,
   <<"C", "H", "E", "S", "T">>, <<"C", "H", "I", "E", "F">>, <<"C", "H", "I", "L", "D">>,
   <<"C", "H", "I", "N", "A">>, <<"C", "H", "O", "S", "E">>, <<"C", "I", "V", "I", "L">>,
   <<"C", "L", "A", "I", "M">>, <<"C", "L", "A", "S", "S">>, <<"C", "L", "E", "A", "N">>,
   <<"C", "L", "E", "A", "R">>, <<"C", "L", "I", "C", "K">>, <<"C", "L", "I", "M", "B">>,
   <<"C", "L", "O", "C", "K">>, <<"C", "L", "O", "S", "E">>, <<"C", "L", "O", "U", "D">>,
   <<"C", "O", "A", "C", "H">>, <<"C", "O", "A", "S", "T">>, <<"C", "O", "U", "L", "D">>,
   <<"C", "O", "U", "N", "T">>, <<"C", "O", "U", "R", "T">>, <<"C", "O", "V", "E", "R">>,
   <<"C", "R", "A", "F", "T">>, <<"C", "R", "A", "S", "H">>, <<"C", "R", "A", "Z", "Y">>,
   <<"C", "R", "E", "A", "M">>, <<"C", "R", "I", "M", "E">>, <<"C", "R", "O", "S", "S">>,
   <<"C", "R", "O", "W", "D">>, <<"C", "R", "O", "W", "N">>, <<"C", "R", "U", "D", "E">>,
   <<"C", "U", "R", "V", "E">>, <<"C", "Y", "C", "L", "E">>, <<"D", "A", "I", "L", "Y">>,
   <<"D", "A", "N", "C", "E">>, <<"D", "A", "T", "E", "D">>, <<"D", "E", "A", "L", "T">>,
   <<"D", "E", "A", "T", "H">>, <<"D", "E", "B", "U", "T">>, <<"D", "E", "L", "A", "Y">>,
   <<"D", "E", "P", "T", "H">>, <<"D", "O", "I", "N", "G">>, <<"D", "O", "U", "B", "T">>,
   <<"D", "O", "Z", "E", "N">>, <<"D", "R", "A", "F", "T">>, <<"D", "R", "A", "M", "A">>,
   <<"D", "R", "A", "N", "K">>, <<"D", "R", "E", "A", "M">>, <<"D", "R", "E", "S", "S">>,
   <<"D", "R", "I", "L", "L">>, <<"D", "R", "I", "N", "K">>, <<"D", "R", "I", "V", "E">>,
   <<"D", "R", "O", "V", "E">>, <<"D", "Y", "I", "N", "G">>, <<"E", "A", "G", "E", "R">>,
   <<"E", "A", "R", "L", "Y">>, <<"E", "A", "R", "T", "H">>, <<"E", "I", "G", "H", "T">>,
   <<"E", "L", "I", "T", "E">>, <<"E", "M", "P", "T", "Y">>, <<"E", "N", "E", "M", "Y">>,
   <<"E", "N", "J", "O", "Y">>, <<"E", "N", "T", "E", "R">>, <<"E", "N", "T", "R", "Y">>,
   <<"E", "Q", "U", "A", "L">>, <<"E", "R", "R", "O", "R">>, <<"E", "V", "E", "N", "T">>,
   <<"E", "V", "E", "R", "Y">>, <<"E", "X", "A", "C", "T">>, <<"E", "X", "I", "S", "T">>,
   <<"E", "X", "T", "R", "A">>, <<"F", "A", "I", "T", "H">>, <<"F", "A", "L", "S", "E">>,
   <<"F", "A", "U", "L", "T">>, <<"F", "I", "B", "E", "R">>, <<"F", "I", "E", "L", "D">>,
   <<"F", "I", "F", "T", "H">>, <<"F", "I", "F", "T", "Y">>, <<"F", "I", "G", "H", "T">>,
   <<"F", "I", "N", "A", "L">>, <<"F", "I", "R", "S", "T">>, <<"F", "I", "X", "E", "D">>,
   <<"F", "L", "A", "S", "H">>, <<"F", "L", "E", "E", "T">>, <<"F", "L", "O", "O", "R">>,
   <<"F", "L", "U", "I", "D">>, <<"F", "O", "C", "U", "S">>, <<"F", "O", "R", "C", "E">>,
   <<"F", "O", "R", "T", "H">>, <<"F", "O", "R", "T", "Y">>, <<"F", "O", "R", "U", "M">>,
   <<"F", "O", "U", "N", "D">>, <<"F", "R", "A", "M", "E">>, <<"F", "R", "A", "N", "K">>,
   <<"F", "R", "A", "U", "D">>, <<"F", "R", "E", "S", "H">>, <<"F", "R", "O", "N", "T">>,
   <<"F", "R", "U", "I", "T">>, <<"F", "U", "L", "L", "Y">>, <<"F", "U", "N", "N", "Y">>,
   <<"G", "I", "A", "N", "T">>, <<"G", "I", "V", "E", "N">>, <<"G", "L", "A", "S", "S">>,
   <<"G", "L", "O", "B", "E">>, <<"G", "O", "I", "N", "G">>, <<"G", "R", "A", "C", "E">>,
   <<"G", "R", "A", "D", "E">>, <<"G", "R", "A", "N", "D">>, <<"G", "R", "A", "N", "T">>,
   <<"G", "R", "A", "S", "S">>, <<"G", "R", "A", "V", "E">>, <<"G", "R", "E", "A", "T">>,
   <<"G", "R", "E", "E", "N">>, <<"G", "R", "O", "S", "S">>, <<"G", "R", "O", "U", "P">>,
   <<"G", "R", "O", "W", "N">>, <<"G", "U", "A", "R", "D">>, <<"G", "U", "E", "S", "S">>,
   <<"G", "U", "E", "S", "T">>, <<"G", "U", "I", "D", "E">>, <<"H", "A", "P", "P", "Y">>,
   <<"H", "A", "R", "R", "Y">>, <<"H", "E", "A", "R", "T">>, <<"H", "E", "A", "V", "Y">>,
   <<"H", "E", "N", "R", "Y">>, <<"H", "O", "R", "S", "E">>, <<"H", "O", "T", "E", "L">>,
   <<"H", "O", "U", "S", "E">>, <<"H", "U", "M", "A", "N">>, <<"I", "D", "E", "A", "L">>,
   <<"I", "M", "A", "G", "E">>, <<"I", "N", "D", "E", "X">>, <<"I", "N", "N", "E", "R">>,
   <<"I", "N", "P", "U", "T">>, <<"I", "S", "S", "U", "E">>, <<"J", "A", "P", "A", "N">>,
   <<"J", "I", "M", "M", "Y">>, <<"J", "O", "I", "N", "T">>, <<"J", "O", "N", "E", "S">>,
   <<"J", "U", "D", "G", "E">>, <<"K", "N", "O", "W", "N">>, <<"L", "A", "B", "E", "L">>,
   <<"L", "A", "R", "G", "E">>, <<"L", "A", "S", "E", "R">>, <<"L", "A", "T", "E", "R">>,
   <<"L", "A", "U", "G", "H">>, <<"L", "A", "Y", "E", "R">>, <<"L", "E", "A", "R", "N">>,
   <<"L", "E", "A", "S", "E">>, <<"L", "E", "A", "S", "T">>, <<"L", "E", "A", "V", "E">>,
   <<"L", "E", "G", "A", "L">>, <<"L", "E", "V", "E", "L">>, <<"L", "E", "W", "I", "S">>,
   <<"L", "I", "G", "H", "T">>, <<"L", "I", "M", "I", "T">>, <<"L", "I", "N", "K", "S">>,
   <<"L", "I", "V", "E", "S">>, <<"L", "O", "C", "A", "L">>, <<"L", "O", "O", "S", "E">>,
   <<"L", "O", "W", "E", "R">>, <<"L", "U", "C", "K", "Y">>, <<"L", "U", "N", "C", "H">>,
   <<"L", "Y", "I", "N", "G">>, <<"M", "A", "G", "I", "C">>, <<"M", "A", "J", "O", "R">>,
   <<"M", "A", "K", "E", "R">>, <<"M", "A", "R", "C", "H">>, <<"M", "A", "R", "I", "A">>,
   <<"M", "A", "T", "C", "H">>, <<"M", "A", "Y", "B", "E">>, <<"M", "A", "Y", "O", "R">>,
   <<"M", "E", "A", "N", "T">>, <<"M", "E", "D", "I", "A">>, <<"M", "E", "T", "A", "L">>,
   <<"M", "I", "G", "H", "T">>, <<"M", "I", "N", "O", "R">>, <<"M", "I", "N", "U", "S">>,
   <<"M", "I", "X", "E", "D">>, <<"M", "O", "D", "E", "L">>, <<"M", "O", "N", "E", "Y">>,
   <<"M", "O", "N", "T", "H">>, <<"M", "O", "R", "A", "L">>, <<"M", "O", "T", "O", "R">>,
   <<"M", "O", "U", "N", "T">>, <<"M", "O", "U", "S", "E">>, <<"M", "O", "U", "T", "H">>,
   <<"M", "O", "V", "E", "D">>, <<"M", "O", "V", "I", "E">>, <<"M", "U", "S", "I", "C">>,
   <<"N", "E", "E", "D", "S">>, <<"N", "E", "V", "E", "R">>, <<"N", "E", "W", "L", "Y">>,
   <<"N", "I", "G", "H", "T">>, <<"N", "O", "I", "S", "E">>, <<"N", "O", "R", "T", "H">>,
   <<"N", "O", "T", "E", "D">>, <<"N", "O", "V", "E", "L">>, <<"N", "U", "R", "S", "E">>,
   <<"O", "C", "C", "U", "R">>, <<"O", "C", "E", "A", "N">>, <<"O", "F", "F", "E", "R">>,
   <<"O", "F", "T", "E", "N">>, <<"O", "R", "D", "E", "R">>, <<"O", "T", "H", "E", "R">>,
   <<"O", "U", "G", "H", "T">>, <<"P", "A", "I", "N", "T">>, <<"P", "A", "N", "E", "L">>,
   <<"P", "A", "P", "E", "R">>, <<"P", "A", "R", "T", "Y">>, <<"P", "E", "A", "C", "E">>,
   <<"P", "E", "T", "E", "R">>, <<"P", "H", "A", "S", "E">>, <<"P", "H", "O", "N", "E">>,
   <<"P", "H", "O", "T", "O">>, <<"P", "I", "A", "N", "O">>, <<"P", "I", "E", "C", "E">>,
   <<"P", "I", "L", "O", "T">>, <<"P", "I", "T", "C", "H">>, <<"P", "L", "A", "C", "E">>,
   <<"P", "L", "A", "I", "N">>, <<"P", "L", "A", "N", "E">>, <<"P", "L", "A", "N", "T">>,
   <<"P", "L", "A", "T", "E">>, <<"P", "O", "I", "N", "T">>, <<"P", "O", "U", "N", "D">>,
   <<"P", "O", "W", "E", "R">>, <<"P", "R", "E", "S", "S">>, <<"P", "R", "I", "C", "E">>,
   <<"P", "R", "I", "D", "E">>, <<"P", "R", "I", "M", "E">>, <<"P", "R", "I", "N", "T">>,
   <<"P", "R", "I", "O", "R">>, <<"P", "R", "I", "Z", "E">>, <<"P", "R", "O", "O", "F">>,
   <<"P", "R", "O", "U", "D">>, <<"P", "R", "O", "V", "E">>, <<"Q", "U", "E", "E", "N">>,
   <<"Q", "U", "I", "C", "K">>, <<"Q", "U", "I", "E", "T">>, <<"Q", "U", "I", "T", "E">>,
   <<"R", "A", "D", "I", "O">>, <<"R", "A", "I", "S", "E">>, <<"R", "A", "N", "G", "E">>,
   <<"R", "A", "P", "I", "D">>, <<"R", "A", "T", "I", "O">>, <<"R", "E", "A", "C", "H">>,
   <<"R", "E", "A", "D", "Y">>, <<"R", "E", "A", "L", "M">>, <<"R", "E", "B", "E", "L">>,
   <<"R", "E", "F", "E", "R">>, <<"R", "E", "L", "A", "X">>, <<"R", "E", "P", "A", "Y">>,
   <<"R", "E", "P", "L", "Y">>, <<"R", "I", "G", "H", "T">>, <<"R", "I", "G", "I", "D">>,
   <<"R", "I", "V", "A", "L">>, <<"R", "I", "V", "E", "R">>, <<"R", "O", "B", "I", "N">>,
   <<"R", "O", "G", "E", "R">>, <<"R", "O", "M", "A", "N">>, <<"R", "O", "U", "G", "H">>,
   <<"R", "O", "U", "N", "D">>, <<"R", "O", "U", "T", "E">>, <<"R", "O", "Y", "A", "L">>,
   <<"R", "U", "R", "A", "L">>, <<"S", "C", "A", "L", "E">>, <<"S", "C", "E", "N", "E">>,
   <<"S", "C", "O", "P", "E">>, <<"S", "C", "O", "R", "E">>, <<"S", "E", "N", "S", "E">>,
   <<"S", "E", "R", "V", "E">>, <<"S", "E", "V", "E", "N">>, <<"S", "H", "A", "L", "L">>,
   <<"S", "H", "A", "P", "E">>, <<"S", "H", "A", "R", "E">>, <<"S", "H", "A", "R", "P">>,
   <<"S", "H", "E", "E", "T">>, <<"S", "H", "E", "L", "F">>, <<"S", "H", "E", "L", "L">>,
   <<"S", "H", "I", "F", "T">>, <<"S", "H", "I", "N", "E">>, <<"S", "H", "I", "R", "T">>,
   <<"S", "H", "O", "C", "K">>, <<"S", "H", "O", "O", "T">>, <<"S", "H", "O", "R", "T">>,
   <<"S", "H", "O", "W", "N">>, <<"S", "I", "G", "H", "T">>, <<"S", "I", "M", "O", "N">>,
   <<"S", "I", "N", "C", "E">>, <<"S", "I", "X", "T", "H">>, <<"S", "I", "X", "T", "Y">>,
   <<"S", "I", "Z", "E", "D">>, <<"S", "K", "I", "L", "L">>, <<"S", "L", "E", "E", "P">>,
   <<"S", "L", "I", "D", "E">>, <<"S", "M", "A", "L", "L">>, <<"S", "M", "A", "R", "T">>,
   <<"S", "M", "I", "L", "E">>, <<"S", "M", "I", "T", "H">>, <<"S", "M", "O", "K", "E">>,
   <<"S", "O", "L", "I", "D">>, <<"S", "O", "L", "V", "E">>, <<"S", "O", "R", "R", "Y">>,
   <<"S", "O", "U", "N", "D">>, <<"S", "O", "U", "T", "H">>, <<"S", "P", "A", "C", "E">>,
   <<"S", "P", "A", "R", "E">>, <<"S", "P", "E", "A", "K">>, <<"S", "P", "E", "E", "D">>,
   <<"S", "P", "E", "N", "D">>, <<"S", "P", "E", "N", "T">>, <<"S", "P", "L", "I", "T">>,
   <<"S", "P", "O", "K", "E">>, <<"S", "P", "O", "R", "T">>, <<"S", "T", "A", "F", "F">>,
   <<"S", "T", "A", "G", "E">>, <<"S", "T", "A", "K", "E">>, <<"S", "T", "A", "N", "D">>,
   <<"S", "T", "A", "R", "T">>, <<"S", "T", "A", "T", "E">>, <<"S", "T", "E", "A", "M">>,
   <<"S", "T", "E", "E", "L">>, <<"S", "T", "E", "E", "P">>, <<"S", "T", "E", "E", "R">>,
   <<"S", "T", "E", "R", "N">>, <<"S", "T", "I", "C", "K">>, <<"S", "T", "I", "L", "L">>,
   <<"S", "T", "O", "C", "K">>, <<"S", "T", "O", "N", "E">>, <<"S", "T", "O", "O", "D">>,
   <<"S", "T", "O", "R", "E">>, <<"S", "T", "O", "R", "M">>, <<"S", "T", "O", "R", "Y">>,
   <<"S", "T", "R", "I", "P">>, <<"S", "T", "U", "C", "K">>, <<"S", "T", "U", "D", "Y">>,
   <<"S", "T", "U", "F", "F">>, <<"S", "T", "Y", "L", "E">>, <<"S", "U", "G", "A", "R">>,
   <<"S", "U", "I", "T", "E">>, <<"S", "U", "P", "E", "R">>, <<"S", "W", "E", "E", "T">>,
   <<"T", "A", "B", "L", "E">>, <<"T", "A", "K", "E", "N">>, <<"T", "A", "S", "T", "E">>,
   <<"T", "A", "X", "E", "S">>, <<"T", "E", "A", "C", "H">>, <<"T", "E", "A", "M", "S">>,
   <<"T", "E", "E", "N", "S">>, <<"T", "E", "E", "T", "H">>, <<"T", "E", "R", "R", "Y">>,
   <<"T", "E", "X", "A", "S">>, <<"T", "H", "A", "N", "K">>, <<"T", "H", "E", "F", "T">>,
   <<"T", "H", "E", "I", "R">>, <<"T", "H", "E", "M", "E">>, <<"T", "H", "E", "R", "E">>,
   <<"T", "H", "E", "S", "E">>, <<"T", "H", "I", "C", "K">>, <<"T", "H", "I", "N", "G">>,
   <<"T", "H", "I", "N", "K">>, <<"T", "H", "I", "R", "D">>, <<"T", "H", "O", "S", "E">>,
   <<"T", "H", "R", "E", "E">>, <<"T", "H", "R", "E", "W">>, <<"T", "H", "R", "O", "W">>,
   <<"T", "H", "U", "M", "B">>, <<"T", "I", "G", "H", "T">>, <<"T", "I", "R", "E", "D">>,
   <<"T", "I", "T", "L", "E">>, <<"T", "O", "D", "A", "Y">>, <<"T", "O", "P", "I", "C">>,
   <<"T", "O", "T", "A", "L">>, <<"T", "O", "U", "C", "H">>, <<"T", "O", "U", "G", "H">>,
   <<"T", "O", "W", "E", "R">>, <<"T", "R", "A", "C", "K">>, <<"T", "R", "A", "D", "E">>,
   <<"T", "R", "A", "I", "N">>, <<"T", "R", "E", "A", "T">>, <<"T", "R", "E", "N", "D">>,
   <<"T", "R", "I", "A", "L">>, <<"T", "R", "I", "B", "E">>, <<"T", "R", "I", "C", "K">>,
   <<"T", "R", "I", "E", "D">>, <<"T", "R", "I", "E", "S">>, <<"T", "R", "I", "P", "S">>,
   <<"T", "R", "U", "C", "K">>, <<"T", "R", "U", "L", "Y">>, <<"T", "R", "U", "N", "K">>,
   <<"T", "R", "U", "S", "T">>, <<"T", "R", "U", "T", "H">>, <<"T", "W", "I", "C", "E">>,
   <<"U", "N", "C", "L", "E">>, <<"U", "N", "C", "U", "T">>, <<"U", "N", "I", "O", "N">>,
   <<"U", "N", "I", "T", "Y">>, <<"U", "N", "T", "I", "L">>, <<"U", "P", "P", "E", "R">>,
   <<"U", "P", "S", "E", "T">>, <<"U", "R", "B", "A", "N">>, <<"U", "S", "A", "G", "E">>,
   <<"U", "S", "U", "A", "L">>, <<"V", "A", "L", "U", "E">>, <<"V", "I", "D", "E", "O">>,
   <<"V", "I", "R", "U", "S">>, <<"V", "I", "S", "I", "T">>, <<"V", "I", "T", "A", "L">>,
   <<"V", "O", "C", "A", "L">>, <<"V", "O", "I", "C", "E">>, <<"W", "A", "S", "T", "E">>,
   <<"W", "A", "T", "C", "H">>, <<"W", "A", "T", "E", "R">>, <<"W", "H", "E", "E", "L">>,
   <<"W", "H", "E", "R", "E">>, <<"W", "H", "I", "C", "H">>, <<"W", "H", "I", "L", "E">>,
   <<"W", "H", "I", "T", "E">>, <<"W", "H", "O", "L", "E">>, <<"W", "H", "O", "S", "E">>,
   <<"W", "O", "M", "A", "N">>, <<"W", "O", "M", "E", "N">>, <<"W", "O", "R", "L", "D">>,
   <<"W", "O", "R", "R", "Y">>, <<"W", "O", "R", "S", "E">>, <<"W", "O", "R", "S", "T">>,
   <<"W", "O", "R", "T", "H">>, <<"W", "O", "U", "L", "D">>, <<"W", "R", "I", "T", "E">>,
   <<"W", "R", "O", "N", "G">>, <<"W", "R", "O", "T", "E">>, <<"Y", "O", "U", "N", "G">>,
   <<"Y", "O", "U", "T", "H">>, <<"Z", "O", "N", "E", "S">>, <<"R", "E", "A", "C", "T">>,
   <<"H", "E", "L", "L", "O">>, <<"B", "R", "A", "V", "E">>
  }

-----------------------------------------------------------------------------
(* Small helpers for maps (JS Map / object) and arrays *)

EmptyMap == [x \in {} |-> x]

Put(f, k, v) == [x \in DOMAIN f \cup {k} |-> IF x = k THEN v ELSE f[x]]

Del(f, k) == [x \in DOMAIN f \ {k} |-> f[x]]

Range(s) == {s[i] : i \in DOMAIN s}

\* map.get(k) || []
GetOrEmpty(m, k) == IF k \in DOMAIN m THEN m[k] ELSE <<>>

\* array.filter(p => p !== x)
FilterOut(s, x) == SelectSeq(s, LAMBDA p : p # x)

\* array.indexOf(x), 1-based; 0 when absent
IndexOf(arr, x) ==
  IF \E i \in DOMAIN arr : arr[i] = x
  THEN CHOOSE i \in DOMAIN arr : arr[i] = x /\ \A j \in DOMAIN arr : arr[j] = x => i <= j
  ELSE 0

-----------------------------------------------------------------------------
(* getRandomWord, isValidWord, evaluateGuess *)

\* the values getRandomWord may return
getRandomWord == VALID_WORDS

\* word.toUpperCase(): a lower-case letter becomes its capital, any other
\* character stays
toUpperCase(word) ==
  LET up(c) == IF IndexOf(LowerAlphabet, c) # 0
               THEN UpperAlphabet[IndexOf(LowerAlphabet, c)]
               ELSE c
  IN  [i \in DOMAIN word |-> up(word[i])]

\* the values isValidWord(word) may resolve to: true, without a lookup, for
\* a word whose upper case is in the list; otherwise response.ok of the
\* dictionary service, which may be either, or false when the fetch fails
isValidWord(word) ==
  IF toUpperCase(word) \in VALID_WORDS THEN {TRUE} ELSE {TRUE, FALSE}

\* the guess-format test of submitGuess
WellFormed(guess) ==
  Len(guess) = WordLen /\ \A i \in DOMAIN guess : guess[i] \in UpperLetters

\* faulty variant: an exact match does not consume the target letter
RECURSIVE FirstPassKeepsTarget(_, _)
FirstPassKeepsTarget(st, i) ==
  IF i > WordLen THEN st
  ELSE IF st.guessArray[i] = st.targetArray[i]
       THEN FirstPassKeepsTarget([st EXCEPT !.result[i] = "correct",
                                            !.guessArray[i] = NULL], i + 1)
       ELSE FirstPassKeepsTarget(st, i + 1)

\* first pass, positions i..5: exact matches, consumed on both sides
RECURSIVE FirstPass(_, _)
FirstPass(st, i) ==
  IF i > WordLen THEN st
  ELSE IF st.guessArray[i] = st.targetArray[i]
       THEN FirstPass([result |-> [st.result EXCEPT ![i] = "correct"],
                       targetArray |-> [st.targetArray EXCEPT ![i] = NULL],
                       guessArray |-> [st.guessArray EXCEPT ![i] = NULL]], i + 1)
       ELSE FirstPass(st, i + 1)

\* faulty variant: a target letter found in the second pass is not consumed
RECURSIVE SecondPassNoConsume(_, _)
SecondPassNoConsume(st, i) ==
  IF i > WordLen THEN st
  ELSE IF st.guessArray[i] # NULL
       THEN IF IndexOf(st.targetArray, st.guessArray[i]) # 0
            THEN SecondPassNoConsume([st EXCEPT !.result[i] = "present"], i + 1)
            ELSE SecondPassNoConsume([st EXCEPT !.result[i] = "absent"], i + 1)
       ELSE SecondPassNoConsume(st, i + 1)

\* second pass, positions i..5: a remaining guess letter takes the first
\* remaining target position holding it
RECURSIVE SecondPass(_, _)
SecondPass(st, i) ==
  IF i > WordLen THEN st
  ELSE IF st.guessArray[i] # NULL
       THEN LET targetIndex == IndexOf(st.targetArray, st.guessArray[i])
            IN  IF targetIndex # 0
                THEN SecondPass([st EXCEPT !.result[i] = "present",
                                           !.targetArray[targetIndex] = NULL], i + 1)
                ELSE SecondPass([st EXCEPT !.result[i] = "absent"], i + 1)
       ELSE SecondPass(st, i + 1)

\* faulty variant: the target is evaluated against the guess
evaluateGuessSwapped(guess, targetWord) ==
  LET st0 == [result |-> [i \in 1..WordLen |-> "undefined"],
              targetArray |-> guess,
              guessArray |-> targetWord]
  IN  SecondPass(FirstPass(st0, 1), 1).result

evaluateGuess(guess, targetWord) ==
  LET st0 == [result |-> [i \in 1..WordLen |-> "undefined"],
              targetArray |-> targetWord,
              guessArray |-> guess]
  IN  SecondPass(FirstPass(st0, 1), 1).result

\* evaluation.every(state => state === "correct")
AllCorrect(evaluation) == \A i \in DOMAIN evaluation : evaluation[i] = "correct"

-----------------------------------------------------------------------------
(* createGameStateForPlayer.  An optional field is a sequence of length 0  *)
(* (undefined / absent) or 1 (present).                                    *)

\* faulty variant: the word is sent whatever the state of the game
RevealedWordAlways(room) == <<room.word>>

\* word: room.gameOver ? room.word : undefined
RevealedWord(room) == IF room.gameOver THEN <<room.word>> ELSE <<>>

\* faulty variant: every player's literal guesses are sent whatever the state of the game
RevealedGuessesAlways(room) ==
  <<[pid \in Range(room.players) |-> GetOrEmpty(room.playerGuesses, pid)]>>

\* playerGuesses: every player's literal guesses, only when the game is over
RevealedGuesses(room) ==
  IF room.gameOver
  THEN <<[pid \in Range(room.players) |-> GetOrEmpty(room.playerGuesses, pid)]>>
  ELSE <<>>

createGameStateForPlayer(room, playerId) ==
  [gameStarted |-> room.gameStarted,
   gameOver |-> room.gameOver,
   winner |-> room.winner,
   word |-> RevealedWord(room),
   players |-> room.players,
   playerGuessStates |->
     [pid \in Range(room.players) |-> GetOrEmpty(room.playerGuessStates, pid)],
   playerGuessesCount |->
     [pid \in Range(room.players) |-> Len(GetOrEmpty(room.playerGuesses, pid))],
   myGuesses |-> GetOrEmpty(room.playerGuesses, playerId),
   myGuessStates |-> GetOrEmpty(room.playerGuessStates, playerId),
   playerGuesses |-> RevealedGuesses(room)]

-----------------------------------------------------------------------------
(* Events.  `sent` holds the events emitted by the last handler step:      *)
(* [to, type, data], a callback reply having type "reply".                 *)

Ev(to, type, data) == [to |-> to, type |-> type, data |-> data]

\* playerSocket = io.sockets.sockets.get(playerId); if (playerSocket) emit:
\* one personalised projection to every entry of room.players still connected
EmitToPlayers(live, room, type) ==
  {Ev(pid, type, createGameStateForPlayer(room, pid)) :
     pid \in Range(room.players) \cap live}

\* io.to(roomId).emit(type, data): every connected socket that joined the group
Broadcast(live, grp, roomId, type, data) ==
  {Ev(s, type, data) : s \in {t \in live : roomId \in grp[t]}}

\* socket.emit("error", {message}) on a socket that may have closed meanwhile
EmitError(live, s, message) ==
  IF s \in live THEN {Ev(s, "error", [message |-> message])} ELSE {}

-----------------------------------------------------------------------------
(* Room objects held by suspended handlers *)

\* the key of a room object deleted from the registry
Gone == "gone"

OrphanKeys == {"o1", "o2", "o3", "o4"}

\* the key an object takes when createRoom replaces it in the registry
FreshOrphan ==
  CHOOSE k \in OrphanKeys \ DOMAIN orphans :
    \A j \in OrphanKeys \ DOMAIN orphans : IndexOf(<<"o1", "o2", "o3", "o4">>, k)
                                            <= IndexOf(<<"o1", "o2", "o3", "o4">>, j)

\* the suspended handlers, those holding the object `from` now holding `to`
Retarget(pend, from, to) ==
  LET move(p) == IF p.room = from THEN [p EXCEPT !.room = to] ELSE p
      image == {move(p) : p \in BagToSet(pend)}
      RECURSIVE Sum(_)
      Sum(S) == IF S = {} THEN 0
                ELSE LET p == CHOOSE q \in S : TRUE
                     IN  CopiesIn(p, pend) + Sum(S \ {p})
  IN  [r \in image |-> Sum({p \in BagToSet(pend) : move(p) = r})]

Held(pend, key) == \E p \in BagToSet(pend) : p.room = key

\* orphans no suspended handler holds any more are dropped
Collect(orph, pend) == [k \in {j \in DOMAIN orph : Held(pend, j)} |-> orph[k]]

\* the room object a suspended handler holds
RoomOf(key) == IF key \in DOMAIN rooms THEN rooms[key] ELSE orphans[key]

NewRoom(roomId, s, word) ==
  [id |-> roomId,
   players |-> <<s>>,
   word |-> word,
   gameStarted |-> FALSE,
   playerGuesses |-> EmptyMap,
   playerGuessStates |-> EmptyMap,
   gameOver |-> FALSE,
   winner |-> NULL,
   quitReason |-> "undefined"]

NewPlayer(s, roomId, isHost) == [id |-> s, roomId |-> roomId, isHost |-> isHost]

\* faulty variant: only the histories of the first player are reset
ClearHistoriesOfFirst(room, i) ==
  IF Len(room.players) = 0 THEN room
  ELSE [room EXCEPT !.playerGuesses = Put(@, room.players[1], <<>>),
                    !.playerGuessStates = Put(@, room.players[1], <<>>)]

\* room.players.forEach(pid => { playerGuesses.set(pid, []); playerGuessStates.set(pid, []) })
RECURSIVE ClearHistories(_, _)
ClearHistories(room, i) ==
  IF i > Len(room.players) THEN room
  ELSE ClearHistories(
         [room EXCEPT !.playerGuesses = Put(@, room.players[i], <<>>),
                      !.playerGuessStates = Put(@, room.players[i], <<>>)], i + 1)

-----------------------------------------------------------------------------
(* Initial state: the server is up, its registries are empty and the       *)
(* connections of C are established (a connection alone changes neither    *)
(* registry).                                                              *)

InitOver(C) ==
  /\ sockets = C
  /\ groups = [s \in AllConns |-> {}]
  /\ rooms = EmptyMap
  /\ orphans = EmptyMap
  /\ players = EmptyMap
  /\ pending = EmptyBag
  /\ sent = {}

-----------------------------------------------------------------------------
(* socket.on("createRoom") *)

createRoom(s, roomId, word) ==
  /\ s \in sockets
  /\ rooms' = Put(rooms, roomId, NewRoom(roomId, s, word))
  /\ IF roomId \in DOMAIN rooms /\ Held(pending, roomId)
     THEN /\ orphans' = Put(orphans, FreshOrphan, rooms[roomId])
          /\ pending' = Retarget(pending, roomId, FreshOrphan)
     ELSE UNCHANGED <<orphans, pending>>
  /\ players' = Put(players, s, NewPlayer(s, roomId, TRUE))
  /\ groups' = [groups EXCEPT ![s] = @ \cup {roomId}]
  /\ sent' = {Ev(s, "reply", [success |-> TRUE, roomId |-> roomId])}
  /\ UNCHANGED sockets

(* socket.on("joinRoom") *)

\* faulty variant: a refused join drops the caller's Player record
JoinFailDropsPlayer(s, error) ==
  /\ sent' = {Ev(s, "reply", [success |-> FALSE, error |-> error])}
  /\ players' = Del(players, s)
  /\ UNCHANGED <<sockets, groups, rooms, orphans, pending>>

\* callback({ success: false, error }); return
JoinFail(s, error) ==
  /\ sent' = {Ev(s, "reply", [success |-> FALSE, error |-> error])}
  /\ UNCHANGED <<sockets, groups, rooms, orphans, players, pending>>

\* faulty variant: off by one
RoomIsFullAboveTwo(room) == Len(room.players) > 2

\* room.players.length >= 2
RoomIsFull(room) == Len(room.players) >= 2

joinRoom(s, roomId) ==
  /\ s \in sockets
  /\ IF roomId \notin DOMAIN rooms THEN JoinFail(s, "Room not found")
     ELSE LET room == rooms[roomId]
          IN  IF RoomIsFull(room) THEN JoinFail(s, "Room is full")
              ELSE IF room.gameStarted THEN JoinFail(s, "Game already started")
              ELSE LET room2 == [room EXCEPT !.players = Append(@, s)]
                   IN  /\ rooms' = [rooms EXCEPT ![roomId] = room2]
                       /\ players' = Put(players, s, NewPlayer(s, roomId, FALSE))
                       /\ groups' = [groups EXCEPT ![s] = @ \cup {roomId}]
                       /\ sent' = Broadcast(sockets, groups', roomId, "playerJoined",
                                            [playerId |-> s,
                                             playerCount |-> Len(room2.players)])
                                  \cup {Ev(s, "reply", [success |-> TRUE, roomId |-> roomId])}
                       /\ UNCHANGED <<sockets, orphans, pending>>

\* a handler that returns without doing anything
Silent ==
  /\ sent' = {}
  /\ UNCHANGED <<sockets, groups, rooms, orphans, players, pending>>

\* faulty variant: the error goes to every connection
OnlyErrorToEveryone(s, message) ==
  /\ sent' = {Ev(t, "error", [message |-> message]) : t \in sockets}
  /\ UNCHANGED <<sockets, groups, rooms, orphans, players, pending>>

\* a handler that only sends an error event to its caller
OnlyError(s, message) ==
  /\ sent' = EmitError(sockets, s, message)
  /\ UNCHANGED <<sockets, groups, rooms, orphans, players, pending>>

(* socket.on("startGame") *)

\* faulty variant: a room with one player may be started
TooFewPlayersNone(room) == Len(room.players) < 1

\* room.players.length < 2
TooFewPlayers(room) == Len(room.players) < 2

startGame(s) ==
  /\ s \in sockets
  /\ IF s \notin DOMAIN players THEN Silent
     ELSE LET player == players[s]
          IN  IF player.roomId \notin DOMAIN rooms \/ ~player.isHost THEN Silent
              ELSE LET room == rooms[player.roomId]
                   IN  IF TooFewPlayers(room)
                       THEN OnlyError(s, "Need at least 2 players to start")
                       ELSE LET room2 == ClearHistories([room EXCEPT !.gameStarted = TRUE], 1)
                            IN  /\ rooms' = [rooms EXCEPT ![player.roomId] = room2]
                                /\ sent' = EmitToPlayers(sockets, room2, "gameStarted")
                                /\ UNCHANGED <<sockets, groups, orphans, players, pending>>

(* socket.on("submitGuess"), up to the await on isValidWord: the checks    *)
(* made before the lookup; a guess that passes them is left suspended with *)
(* the room object the handler read.                                       *)

\* faulty variant: a finished room still takes guesses
NotPlayableWaiting(room) == ~room.gameStarted

\* !room.gameStarted || room.gameOver
NotPlayable(room) == ~room.gameStarted \/ room.gameOver

\* faulty variant: a player who has guessed more often than the other must wait
LimitReachedOrNotTurn(room, s) ==
  \/ Len(GetOrEmpty(room.playerGuesses, s)) >= MaxGuesses
  \/ \E o \in Range(room.players) \ {s} :
       Len(GetOrEmpty(room.playerGuesses, s)) > Len(GetOrEmpty(room.playerGuesses, o))

\* currentGuesses.length >= 6
LimitReached(room, s) == Len(GetOrEmpty(room.playerGuesses, s)) >= MaxGuesses

submitGuess(s, guess, cap) ==
  /\ s \in sockets
  /\ IF s \notin DOMAIN players THEN Silent
     ELSE LET player == players[s]
          IN  IF player.roomId \notin DOMAIN rooms THEN Silent
              ELSE LET room == rooms[player.roomId]
                   IN  IF NotPlayable(room) THEN Silent
                       ELSE IF ~WellFormed(guess)
                       THEN OnlyError(s, "Invalid guess. Must be 5 letters.")
                       ELSE IF LimitReached(room, s)
                       THEN OnlyError(s, "You have already used all 6 guesses.")
                       ELSE /\ BagCardinality(pending) < cap
                            /\ pending' = pending (+) SetToBag({[sock |-> s, guess |-> guess,
                                                                 room |-> player.roomId]})
                            /\ sent' = {}
                            /\ UNCHANGED <<sockets, groups, rooms, orphans, players>>

\* room.players.find(p => p !== socket.id)
OtherPlayer(room, s) ==
  LET others == FilterOut(room.players, s)
  IN  IF Len(others) = 0 THEN "undefined" ELSE others[1]

\* otherPlayerStates.some(states => states.every(state => state === "correct"))
PlayerWon(room, pid) ==
  LET states == GetOrEmpty(room.playerGuessStates, pid)
  IN  \E i \in DOMAIN states : AllCorrect(states[i])

\* the guess and its evaluation pushed on the submitter's histories
AppendGuess(room, s, guess) ==
  [room EXCEPT
     !.playerGuesses = Put(@, s, Append(GetOrEmpty(room.playerGuesses, s), guess)),
     !.playerGuessStates =
        Put(@, s, Append(GetOrEmpty(room.playerGuessStates, s),
                         evaluateGuess(guess, room.word)))]

\* faulty variant: the game ends as soon as the submitter has used all its guesses
SubmitterFinished(room1, s) ==
  Len(GetOrEmpty(room1.playerGuesses, s)) >= MaxGuesses

\* the submitter used all its guesses and the other player did too, or won
BothFinished(room1, s) ==
  /\ Len(GetOrEmpty(room1.playerGuesses, s)) >= MaxGuesses
  /\ \/ Len(GetOrEmpty(room1.playerGuesses, OtherPlayer(room1, s))) >= MaxGuesses
     \/ PlayerWon(room1, OtherPlayer(room1, s))

\* faulty variant: a correct guess ends the game only once both players are done
RoomAfterGuessLateWin(room, s, guess) ==
  LET room1 == AppendGuess(room, s, guess)
  IN  IF BothFinished(room1, s)
      THEN [room1 EXCEPT !.gameOver = TRUE,
                         !.winner = IF AllCorrect(evaluateGuess(guess, room.word)) THEN s
                                    ELSE IF PlayerWon(room1, OtherPlayer(room1, s))
                                    THEN OtherPlayer(room1, s) ELSE NULL]
      ELSE room1

\* the room after an accepted guess: histories appended, then the
\* end-of-game decision
RoomAfterGuess(room, s, guess) ==
  LET room1 == AppendGuess(room, s, guess)
  IN  IF AllCorrect(evaluateGuess(guess, room.word))
      THEN [room1 EXCEPT !.gameOver = TRUE, !.winner = s]
      ELSE IF BothFinished(room1, s)
      THEN [room1 EXCEPT !.gameOver = TRUE,
                         !.winner = IF PlayerWon(room1, OtherPlayer(room1, s))
                                    THEN OtherPlayer(room1, s) ELSE NULL]
      ELSE room1

\* the events of an accepted guess: gameOver when this guess ended the game,
\* gameStateUpdate when the room is not over afterwards, nothing otherwise
GuessEvents(live, room, s, guess) ==
  LET room2 == RoomAfterGuess(room, s, guess)
  IN  IF AllCorrect(evaluateGuess(guess, room.word)) \/ BothFinished(room2, s)
      THEN EmitToPlayers(live, room2, "gameOver")
      ELSE IF ~room2.gameOver THEN EmitToPlayers(live, room2, "gameStateUpdate")
      ELSE {}

(* socket.on("submitGuess"), from the point where isValidWord resolves *)

resumeGuess(p, isValid) ==
  /\ p \in BagToSet(pending)
  /\ pending' = pending (-) SetToBag({p})
  /\ IF ~isValid
     THEN /\ sent' = EmitError(sockets, p.sock, "Not in dictionary")
          /\ orphans' = Collect(orphans, pending')
          /\ UNCHANGED rooms
     ELSE IF p.room = Gone
     THEN /\ sent' = {}
          /\ UNCHANGED <<rooms, orphans>>
     ELSE /\ sent' = GuessEvents(sockets, RoomOf(p.room), p.sock, p.guess)
          /\ IF p.room \in DOMAIN rooms
             THEN /\ rooms' = [rooms EXCEPT
                                 ![p.room] = RoomAfterGuess(@, p.sock, p.guess)]
                  /\ UNCHANGED orphans
             ELSE /\ orphans' = Collect([orphans EXCEPT
                                 ![p.room] = RoomAfterGuess(@, p.sock, p.guess)], pending')
                  /\ UNCHANGED rooms
  /\ UNCHANGED <<sockets, groups, players>>

(* socket.on("restartGame") *)

restartGame(s, word) ==
  /\ s \in sockets
  /\ IF s \notin DOMAIN players THEN Silent
     ELSE LET player == players[s]
          IN  IF player.roomId \notin DOMAIN rooms THEN Silent
              ELSE LET room == rooms[player.roomId]
                       room2 == ClearHistories([room EXCEPT !.word = word,
                                                            !.gameStarted = TRUE,
                                                            !.gameOver = FALSE,
                                                            !.winner = NULL], 1)
                   IN  /\ rooms' = [rooms EXCEPT ![player.roomId] = room2]
                       /\ sent' = EmitToPlayers(sockets, room2, "gameRestarted")
                       /\ UNCHANGED <<sockets, groups, orphans, players, pending>>

(* socket.on("getRoomStatus") *)

getRoomStatus(s) ==
  /\ s \in sockets
  /\ sent' =
       IF s \notin DOMAIN players
       THEN {Ev(s, "reply", [success |-> FALSE, error |-> "Player not found"])}
       ELSE IF players[s].roomId \notin DOMAIN rooms
       THEN {Ev(s, "reply", [success |-> FALSE, error |-> "Room not found"])}
       ELSE LET room == rooms[players[s].roomId]
            IN  {Ev(s, "reply", [success |-> TRUE,
                                 room |-> Put(createGameStateForPlayer(room, s),
                                              "id", room.id)])}
  /\ UNCHANGED <<sockets, groups, rooms, orphans, players, pending>>

(* socket.on("disconnect"): the socket has left io.sockets.sockets and its *)
(* groups when the handler runs                                            *)

\* the projection sent to the remaining player, quitReason added
QuitState(room, pid) ==
  Put(createGameStateForPlayer(room, pid), "quitReason", "opponent_quit")

\* the room after a departure that leaves somebody in it
RoomAfterLeave(room1) ==
  IF room1.gameStarted /\ ~room1.gameOver
  THEN [room1 EXCEPT !.gameOver = TRUE,
                     !.winner = NULL,
                     !.quitReason = "opponent_quit"]
  ELSE room1

\* faulty variant: the Player record of the departed connection is kept
PlayersAfterLeaveKept(pls, s) == pls

\* players.delete(socket.id)
PlayersAfterLeave(pls, s) == Del(pls, s)

\* the handler, for a socket s that has left io.sockets.sockets and its groups
onDisconnect(s) ==
  /\ sockets' = sockets \ {s}
  /\ groups' = [groups EXCEPT ![s] = {}]
  /\ players' = PlayersAfterLeave(players, s)
  /\ UNCHANGED orphans
  /\ IF s \notin DOMAIN players \/ players[s].roomId \notin DOMAIN rooms
     THEN /\ sent' = {}
          /\ UNCHANGED <<rooms, pending>>
     ELSE LET roomId == players[s].roomId
              room == rooms[roomId]
              room1 == [room EXCEPT !.players = FilterOut(@, s)]
              room2 == RoomAfterLeave(room1)
              remainingPlayerId == room1.players[1]
          IN  IF Len(room1.players) = 0
              THEN /\ rooms' = Del(rooms, roomId)
                   /\ pending' = Retarget(pending, roomId, Gone)
                   /\ sent' = {}
              ELSE /\ rooms' = [rooms EXCEPT ![roomId] = room2]
                   /\ sent' = Broadcast(sockets', groups', roomId, "playerLeft",
                                        [playerId |-> s,
                                         playerCount |-> Len(room1.players)])
                              \cup (IF room1.gameStarted /\ ~room1.gameOver
                                       /\ remainingPlayerId \in sockets'
                                    THEN {Ev(remainingPlayerId, "gameOver",
                                             QuitState(room2, remainingPlayerId))}
                                    ELSE {})
                   /\ UNCHANGED pending

\* connection s closes: socket.io runs the handler, once
disconnect(s) == s \in sockets /\ onDisconnect(s)

-----------------------------------------------------------------------------
(* Specifications *)

\* The registry: three connections create, join and leave rooms under two
\* room ids.  generateRoomId may return an id in use (unless a suspended
\* handler holds the room under it); s1 and s2 create rooms, s2 and s3 join
\* them, every connection starts, restarts and leaves; s1 asks the status
\* and sends guesses of a word outside the list.  Of the words getRandomWord
\* may return the rooms are given those of RegistryWords, and of the values
\* isValidWord may resolve to the lookups take those of RegistryAnswers (the
\* dictionary service does not know the word, or cannot be reached).
Creators == {"s1", "s2"}

Joiners == {"s2", "s3"}

RegistryGuesses == {ZZZZZ}

RegistryWords == {ABOUT}

RegistryAnswers == {FALSE}

Init == InitOver(AllConns)

Next ==
  \/ \E s \in Creators, roomId \in {r \in AllRoomIds : ~Held(pending, r)} :
       \E word \in RegistryWords \cap getRandomWord : createRoom(s, roomId, word)
  \/ \E s \in Joiners, roomId \in AllRoomIds : joinRoom(s, roomId)
  \/ \E s \in AllConns : startGame(s)
  \/ \E guess \in RegistryGuesses : submitGuess("s1", guess, MaxPendingRegistry)
  \/ \E p \in BagToSet(pending) :
       \E isValid \in isValidWord(p.guess) \cap RegistryAnswers : resumeGuess(p, isValid)
  \/ \E s \in AllConns, word \in RegistryWords \cap getRandomWord : restartGame(s, word)
  \/ getRoomStatus("s1")
  \/ \E s \in AllConns : disconnect(s)

Spec == Init /\ [][Next]_vars

\* The game: connection s1 creates the room under an id that is not in use,
\* s2 joins it, and both play with words of the list and malformed guesses.
\* Of the words getRandomWord may return the room is given those of
\* GameWords.
GameConns == {"s1", "s2"}

GameGuesses == {ABOUT, ABOVE, ShortWord}

GameWords == {ABOUT}

InitGame == InitOver(GameConns)

NextGame ==
  \/ \E roomId \in {"R1"} \ DOMAIN rooms, word \in GameWords \cap getRandomWord :
       createRoom("s1", roomId, word)
  \/ joinRoom("s2", "R1")
  \/ \E s \in GameConns : startGame(s)
  \/ \E s \in GameConns, guess \in GameGuesses : submitGuess(s, guess, MaxPending)
  \/ \E p \in BagToSet(pending) : \E isValid \in isValidWord(p.guess) : resumeGuess(p, isValid)
  \/ \E s \in GameConns, word \in GameWords \cap getRandomWord : restartGame(s, word)
  \/ \E s \in GameConns : getRoomStatus(s)
  \/ \E s \in GameConns : disconnect(s)

SpecGame == InitGame /\ [][NextGame]_vars

\* The rejections: s1 creates the room, s2 joins it, s1 starts the game and
\* both send a word outside the list, which the dictionary service accepts
\* or rejects, and a malformed guess, until their guesses are used up;
\* either may leave.  Of the words getRandomWord may return the room is
\* given those of RejectWords.
RejectGuesses == {ZZZZZ, ShortWord}

RejectWords == {ABOUT, DREAM}

NextReject ==
  \/ \E roomId \in {"R1"} \ DOMAIN rooms, word \in RejectWords \cap getRandomWord :
       createRoom("s1", roomId, word)
  \/ joinRoom("s2", "R1")
  \/ startGame("s1")
  \/ \E s \in GameConns, guess \in RejectGuesses : submitGuess(s, guess, MaxPending)
  \/ \E p \in BagToSet(pending) : \E isValid \in isValidWord(p.guess) : resumeGuess(p, isValid)
  \/ \E s \in GameConns : disconnect(s)

SpecReject == InitGame /\ [][NextReject]_vars

\* The evaluation: a game in progress between s1 and s2 in which s1 has a
\* guess suspended on its lookup, for every word getRandomWord may have
\* given the room and for every guess over three letters the list repeats
\* often (every pattern of repeated letters), and for the guess ABIDE; the
\* lookup resolves and the handler goes on; s1 then guesses the word of the
\* room.
EvalLetters == {"E", "R", "T"}

EvalWords == {<<a, b, c, d, e>> : a \in EvalLetters, b \in EvalLetters, c \in EvalLetters,
                                   d \in EvalLetters, e \in EvalLetters}

EvalGuesses == EvalWords \cup {ABIDE}

EvalTargets == getRandomWord

InitEval ==
  /\ sockets = GameConns
  /\ groups = [s \in AllConns |-> IF s \in GameConns THEN {"R1"} ELSE {}]
  /\ \E word \in EvalTargets :
       rooms = [r \in {"R1"} |->
                  ClearHistories([NewRoom("R1", "s1", word) EXCEPT
                                    !.players = <<"s1", "s2">>,
                                    !.gameStarted = TRUE], 1)]
  /\ orphans = EmptyMap
  /\ players = [s \in GameConns |-> NewPlayer(s, "R1", s = "s1")]
  /\ \E guess \in EvalGuesses :
       pending = SetToBag({[sock |-> "s1", guess |-> guess, room |-> "R1"]})
  /\ sent = {}

NextEval ==
  \/ \E p \in BagToSet(pending) : \E isValid \in isValidWord(p.guess) : resumeGuess(p, isValid)
  \/ submitGuess("s1", rooms["R1"].word, 1)

SpecEval == InitEval /\ [][NextEval]_vars

-----------------------------------------------------------------------------
(* Vocabulary of the properties *)

ProjectionEvents == {"gameStarted", "gameStateUpdate", "gameOver", "gameRestarted"}

\* the event carries a projection (a successful getRoomStatus reply does)
HasProjection(e) ==
  \/ e.type \in ProjectionEvents
  \/ e.type = "reply" /\ "room" \in DOMAIN e.data

\* the projection an event carries, as createGameStateForPlayer built it:
\* a getRoomStatus reply holds it in `room` with the room id added, the
\* gameOver event of a departure holds it with quitReason added
ProjectionOf(e) ==
  IF e.type = "reply"
  THEN [f \in DOMAIN e.data.room \ {"id"} |-> e.data.room[f]]
  ELSE [f \in DOMAIN e.data \ {"quitReason"} |-> e.data[f]]

\* the registered rooms whose projection for the receiver the event carries
SourceRooms(e) ==
  {r \in DOMAIN rooms : ProjectionOf(e) = createGameStateForPlayer(rooms[r], e.to)}

InProgress(room) == room.gameStarted /\ ~room.gameOver

Guesses(room, s) == GetOrEmpty(room.playerGuesses, s)

-----------------------------------------------------------------------------
(* C1: a projection built for player P of a room that is not finished      *)
(* holds P's own literal guesses and nobody else's; of a finished room it   *)
(* holds the literal guesses of every entry of the player list.  Every      *)
(* event that carries a projection carries the one built for its receiver.  *)

C1_GuessPrivacy ==
  /\ \A r \in DOMAIN rooms, P \in AllConns :
       LET room == rooms[r]
           g == createGameStateForPlayer(room, P)
       IN  /\ g.myGuesses = Guesses(room, P)
           /\ ~room.gameOver => g.playerGuesses = <<>>
           /\ room.gameOver =>
                /\ Len(g.playerGuesses) = 1
                /\ \A pid \in Range(room.players) :
                     g.playerGuesses[1][pid] = Guesses(room, pid)
  /\ \A e \in sent : HasProjection(e) => SourceRooms(e) # {}

\* s1 is sent an update of an unfinished game in which s2 has guessed
C1_Witness ==
  \E e \in sent :
    /\ e.type = "gameStateUpdate" /\ e.to = "s1"
    /\ ~e.data.gameOver
    /\ "s2" \in DOMAIN e.data.playerGuessesCount
    /\ e.data.playerGuessesCount["s2"] >= 1
    /\ e.data.playerGuesses = <<>>

-----------------------------------------------------------------------------
(* C2: an event carries the target word only if the room it was built from *)
(* is finished; the gameRestarted events carry no word.                     *)

C2_WordHiddenUntilFinished ==
  \A e \in sent :
    HasProjection(e) =>
      /\ ProjectionOf(e).word # <<>> =>
           /\ ProjectionOf(e).gameOver
           /\ \E r \in SourceRooms(e) : rooms[r].gameOver
      /\ e.type = "gameRestarted" => ProjectionOf(e).word = <<>>

\* both players of a room are told of a restart, without the word
C2_Witness ==
  /\ \E e \in sent : e.type = "gameRestarted" /\ e.to = "s1" /\ e.data.word = <<>>
  /\ \E e \in sent : e.type = "gameRestarted" /\ e.to = "s2" /\ e.data.word = <<>>

-----------------------------------------------------------------------------
(* Steps, recognised by what they do to the state *)

\* the suspended handler p resumes (nothing else removes a handler)
ResumeStep(p) ==
  /\ p \in BagToSet(pending)
  /\ pending' = pending (-) SetToBag({p})

\* p resumes and its guess is pushed on the submitter's history in the
\* registered room
AcceptedStep(p) ==
  /\ ResumeStep(p)
  /\ p.room \in DOMAIN rooms /\ p.room \in DOMAIN rooms'
  /\ Guesses(rooms'[p.room], p.sock) = Append(Guesses(rooms[p.room], p.sock), p.guess)

\* connection s closes
DisconnectStep(s) == s \in sockets /\ sockets' = sockets \ {s}

TwoPlayers(room) == Len(room.players) = 2 /\ room.players[1] # room.players[2]

-----------------------------------------------------------------------------
(* C3: no player's guess history in a registered room is longer than 6.    *)
(* Violated: the limit is tested before the lookup is awaited and not      *)
(* again after it.                                                         *)

C3_AtMostSixGuesses ==
  \A r \in DOMAIN rooms, s \in AllConns : Len(Guesses(rooms[r], s)) <= MaxGuesses

-----------------------------------------------------------------------------
(* C4: a handler that resumes when its room is finished, or when its       *)
(* submitter has no Player record any more, changes no room.  Violated:    *)
(* nothing is tested again after the await.                                *)

C4_StaleGuessChangesNothing ==
  [][\A p \in BagToSet(pending) :
       (/\ ResumeStep(p)
        /\ p.room \in DOMAIN rooms
        /\ rooms[p.room].gameOver \/ p.sock \notin DOMAIN players)
       => rooms' = rooms]_vars

-----------------------------------------------------------------------------
(* C5: when a guess equal to the target is accepted in a room in progress, *)
(* the room is finished in that step with the submitter as winner, and     *)
(* every connected entry of its player list is sent gameOver with its      *)
(* projection of the finished room.                                        *)

C5_CorrectGuessWins ==
  [][\A p \in BagToSet(pending) :
       (/\ AcceptedStep(p)
        /\ InProgress(rooms[p.room])
        /\ p.guess = rooms[p.room].word)
       => /\ rooms'[p.room].gameOver
          /\ rooms'[p.room].winner = p.sock
          /\ \A pid \in Range(rooms[p.room].players) \cap sockets :
               Ev(pid, "gameOver", createGameStateForPlayer(rooms'[p.room], pid)) \in sent']_vars

\* s1 has won with its third guess while s2 has not guessed, and both are told
C5_Witness ==
  /\ "R1" \in DOMAIN rooms
  /\ rooms["R1"].gameOver /\ rooms["R1"].winner = "s1"
  /\ Len(Guesses(rooms["R1"], "s1")) = 3 /\ Len(Guesses(rooms["R1"], "s2")) = 0
  /\ rooms["R1"].players = <<"s1", "s2">>
  /\ \A pid \in {"s1", "s2"} : \E e \in sent : e.type = "gameOver" /\ e.to = pid

-----------------------------------------------------------------------------
(* C6: in a room in progress with two players, a non-winning guess         *)
(* accepted from one of them finishes the room as a tie (winner null) if   *)
(* both have then used 6 guesses or more, and leaves the room in progress  *)
(* if the other has fewer than 6 guesses and has not won.                  *)
(* No two-player room in which both have used 6 guesses without winning   *)
(* is in progress.                                                         *)

\* both players of the room have used their guesses and neither has won
BothExhausted(room) ==
  \A pid \in Range(room.players) :
    Len(Guesses(room, pid)) >= MaxGuesses /\ ~PlayerWon(room, pid)

C6_TieAfterBothExhausted ==
  [][/\ \A r \in DOMAIN rooms' :
          TwoPlayers(rooms'[r]) /\ BothExhausted(rooms'[r]) => ~InProgress(rooms'[r])
     /\ \A p \in BagToSet(pending) :
          (/\ AcceptedStep(p)
           /\ InProgress(rooms[p.room])
           /\ TwoPlayers(rooms[p.room])
           /\ p.sock \in Range(rooms[p.room].players)
           /\ p.guess # rooms[p.room].word)
          => LET after == rooms'[p.room]
                 other == OtherPlayer(rooms[p.room], p.sock)
             IN  /\ (/\ Len(Guesses(after, p.sock)) >= MaxGuesses
                     /\ Len(Guesses(after, other)) >= MaxGuesses
                     /\ ~PlayerWon(after, other))
                    => after.gameOver /\ after.winner = NULL
                 /\ (Len(Guesses(after, other)) < MaxGuesses /\ ~PlayerWon(after, other))
                    => ~after.gameOver]_vars

\* both players have used their 6 guesses, none correct: a tie, told to both
C6_Witness ==
  /\ "R1" \in DOMAIN rooms
  /\ rooms["R1"].players = <<"s1", "s2">>
  /\ rooms["R1"].gameOver /\ rooms["R1"].winner = NULL
  /\ rooms["R1"].quitReason = "undefined"
  /\ \A pid \in {"s1", "s2"} :
       /\ Len(Guesses(rooms["R1"], pid)) = MaxGuesses
       /\ ~PlayerWon(rooms["R1"], pid)
       /\ \E e \in sent : e.type = "gameOver" /\ e.to = pid /\ e.data.winner = NULL

-----------------------------------------------------------------------------
(* C7: when one of the two players of a room in progress disconnects, the  *)
(* room becomes finished with the remaining player as winner, and the      *)
(* remaining player alone is sent a gameOver projection with the           *)
(* opponent-quit marker.                                                   *)

\* s is one of the two players of the room in progress registered under r
QuitsRunningGame(s, r) ==
  /\ DisconnectStep(s)
  /\ s \in DOMAIN players /\ players[s].roomId = r
  /\ r \in DOMAIN rooms
  /\ TwoPlayers(rooms[r])
  /\ s \in Range(rooms[r].players)
  /\ OtherPlayer(rooms[r], s) \in sockets
  /\ InProgress(rooms[r])

\* the gameOver events of the step are the one for the remaining player,
\* with the quit marker
OnlyRemainingToldOfQuit(s, r) ==
  LET remaining == OtherPlayer(rooms[r], s)
  IN  {e \in sent' : e.type = "gameOver"}
        = {Ev(remaining, "gameOver", QuitState(rooms'[r], remaining))}

\* C7: the room is finished with the remaining player as winner and only
\* the remaining player is told.  Violated: the handler finishes the room
\* and tells the remaining player, but sets winner to null.
C7_RemainingPlayerWins ==
  [][\A s \in AllConns, r \in AllRoomIds :
       QuitsRunningGame(s, r)
       => /\ r \in DOMAIN rooms'
          /\ rooms'[r].gameOver
          /\ rooms'[r].winner = OtherPlayer(rooms[r], s)
          /\ OnlyRemainingToldOfQuit(s, r)]_vars

-----------------------------------------------------------------------------
(* C8: there is no turn order.  In a room in progress a player with fewer  *)
(* than 6 guesses can always submit a word of the list, whatever the       *)
(* histories of the two players: the handler sends no error and suspends   *)
(* on the lookup; and when it resumes in a room in progress the guess is   *)
(* pushed on the submitter's history.                                      *)

\* s may guess: its room is in progress and it has guesses left
MayGuess(s) ==
  /\ s \in sockets /\ s \in DOMAIN players
  /\ players[s].roomId \in DOMAIN rooms
  /\ InProgress(rooms[players[s].roomId])
  /\ Len(Guesses(rooms[players[s].roomId], s)) < MaxGuesses

\* the guesses of the game that are words of the list
ListGuesses == GameGuesses \cap VALID_WORDS

C8_NoTurnOrder ==
  [][/\ \A s \in GameConns, guess \in ListGuesses :
          (MayGuess(s) /\ BagCardinality(pending) < MaxPending)
          => ENABLED (/\ submitGuess(s, guess, MaxPending)
                      /\ sent' = {}
                      /\ pending' = pending (+) SetToBag({[sock |-> s, guess |-> guess,
                                                           room |-> players[s].roomId]}))
     /\ \A p \in BagToSet(pending) :
          (/\ ResumeStep(p)
           /\ p.guess \in VALID_WORDS
           /\ p.room \in DOMAIN rooms
           /\ InProgress(rooms[p.room]))
          => AcceptedStep(p)]_vars

\* s1 has guessed four times in a row in a game in which s2 has not guessed
C8_Witness ==
  /\ "R1" \in DOMAIN rooms
  /\ InProgress(rooms["R1"])
  /\ rooms["R1"].players = <<"s1", "s2">>
  /\ Len(Guesses(rooms["R1"], "s1")) = 4 /\ Len(Guesses(rooms["R1"], "s2")) = 0

-----------------------------------------------------------------------------
(* C9: the player list of every registered room is the set of connected    *)
(* sockets whose Player record points at the room, and is not empty.       *)
(* Violated: createRoom and joinRoom do not take the caller out of the     *)
(* room it is in.                                                          *)

Occupants(r) == {s \in sockets : s \in DOMAIN players /\ players[s].roomId = r}

C9_ListIsLiveOccupants ==
  \A r \in DOMAIN rooms :
    /\ Range(rooms[r].players) = Occupants(r)
    /\ Occupants(r) # {}

-----------------------------------------------------------------------------
(* C10: every registered room has a player list of length 1 or 2.          *)

C10_OneOrTwoPlayers ==
  \A r \in DOMAIN rooms : Len(rooms[r].players) \in 1..2

\* R1 was deleted when s1, its only player, left; R2 holds two players and
\* has just refused a join
C10_Witness ==
  /\ "s1" \notin sockets /\ "R1" \notin DOMAIN rooms
  /\ "R2" \in DOMAIN rooms /\ Len(rooms["R2"].players) = 2
  /\ \E e \in sent : e.type = "reply" /\ "error" \in DOMAIN e.data
                     /\ e.data.error = "Room is full"

-----------------------------------------------------------------------------
(* C11: joinRoom on an id that is not in the registry, on a room with 2    *)
(* players or more, or on a started room can only reply with the failure   *)
(* (Room not found, Room is full, Game already started, tested in that     *)
(* order): registries, rooms, groups and suspended handlers are unchanged  *)
(* and the reply is the only event, so no playerJoined is broadcast.       *)

\* why joinRoom(roomId) is refused in the current state, "" if it is not
JoinRefusal(roomId) ==
  IF roomId \notin DOMAIN rooms THEN "Room not found"
  ELSE IF Len(rooms[roomId].players) >= 2 THEN "Room is full"
  ELSE IF rooms[roomId].gameStarted THEN "Game already started"
  ELSE ""

C11_JoinFailuresChangeNothing ==
  \A s \in sockets, roomId \in AllRoomIds :
    JoinRefusal(roomId) # "" =>
      /\ ENABLED joinRoom(s, roomId)
      /\ ~ENABLED (/\ joinRoom(s, roomId)
                   /\ ~(/\ sent' = {Ev(s, "reply", [success |-> FALSE,
                                                    error |-> JoinRefusal(roomId)])}
                        /\ UNCHANGED <<sockets, groups, rooms, orphans, players, pending>>))

\* s3 has just been refused by a started room that one player has left
C11_Witness ==
  /\ sent = {Ev("s3", "reply", [success |-> FALSE, error |-> "Game already started"])}
  /\ \E r \in DOMAIN rooms : rooms[r].gameStarted /\ Len(rooms[r].players) = 1

-----------------------------------------------------------------------------
(* C12: createRoom registers the new room under an id that was not in the  *)
(* registry before the call, so that it replaces no registered room.       *)
(* Violated: the id generateRoomId returns is used as it is.               *)

\* createRoom by s has registered a room under roomId (a successful join
\* also sends playerJoined)
CreateStep(s, roomId) ==
  /\ sent' = {Ev(s, "reply", [success |-> TRUE, roomId |-> roomId])}
  /\ roomId \in DOMAIN rooms'
  /\ rooms'[roomId].players = <<s>>

C12_CreateRoomUsesFreshId ==
  [][\A s \in AllConns, roomId \in AllRoomIds :
       CreateStep(s, roomId) => roomId \notin DOMAIN rooms]_vars

-----------------------------------------------------------------------------
(* C13: the departure handling is idempotent.  For a connection that has   *)
(* closed, and whose disconnect handler has therefore run, running the     *)
(* handler again changes no registry, room, group or suspended handler and *)
(* emits no event.                                                         *)

C13_DepartureIdempotent ==
  \A s \in AllConns \ sockets :
    /\ ENABLED onDisconnect(s)
    /\ ~ENABLED (/\ onDisconnect(s)
                 /\ ~(/\ sent' = {}
                      /\ UNCHANGED <<sockets, groups, rooms, orphans, players, pending>>))

\* s2 has just left a room in which s1 remains and is told so
C13_Witness ==
  /\ "s2" \notin sockets
  /\ \E r \in DOMAIN rooms :
       /\ rooms[r].players = <<"s1">>
       /\ Ev("s1", "playerLeft", [playerId |-> "s2", playerCount |-> 1]) \in sent

-----------------------------------------------------------------------------
(* C14: every evaluation of a 5-letter guess against a 5-letter target has *)
(* 5 labels, each of them correct, present or absent, and for every letter *)
(* the positions of the guess holding it that are labelled correct or      *)
(* present are at most as many as the positions of the target holding it.  *)

Labels == {"correct", "present", "absent"}

LabelsBounded(guess, targetWord, evaluation) ==
  /\ DOMAIN evaluation = 1..WordLen
  /\ \A i \in 1..WordLen : evaluation[i] \in Labels
  /\ \A c \in Range(guess) :
       Cardinality({i \in 1..WordLen : guess[i] = c /\ evaluation[i] \in {"correct", "present"}})
         <= Cardinality({i \in 1..WordLen : targetWord[i] = c})

C14_LabelsBoundedByTarget ==
  \A r \in DOMAIN rooms : \A pid \in DOMAIN rooms[r].playerGuessStates :
    /\ Len(rooms[r].playerGuessStates[pid]) = Len(Guesses(rooms[r], pid))
    /\ \A i \in DOMAIN rooms[r].playerGuessStates[pid] :
         LabelsBounded(Guesses(rooms[r], pid)[i], rooms[r].word,
                       rooms[r].playerGuessStates[pid][i])

\* the guess TEETT against EARLY: the first E is present, the second absent
C14_Witness ==
  /\ "R1" \in DOMAIN rooms
  /\ rooms["R1"].word = <<"E", "A", "R", "L", "Y">>
  /\ Guesses(rooms["R1"], "s1") = << <<"T", "E", "E", "T", "T">> >>
  /\ rooms["R1"].playerGuessStates["s1"] =
       << <<"absent", "present", "absent", "absent", "absent">> >>

-----------------------------------------------------------------------------
(* C15: the evaluation of the guess ABIDE against the target DREAM.        *)

\* s1's first guess was ABIDE and the target is DREAM
AbideAgainstDream(r) ==
  /\ rooms[r].word = DREAM
  /\ Len(Guesses(rooms[r], "s1")) >= 1
  /\ Guesses(rooms[r], "s1")[1] = ABIDE

\* C15 as claimed: the labels are absent, absent, absent, absent, present.
\* Violated: A and D occur in DREAM.
C15_AbideAllAbsentButE ==
  \A r \in DOMAIN rooms :
    AbideAgainstDream(r) =>
      rooms[r].playerGuessStates["s1"][1]
        = <<"absent", "absent", "absent", "absent", "present">>

\* C15 as amended: the labels are present, absent, absent, present, present.
C15_AbideAgainstDream ==
  \A r \in DOMAIN rooms :
    AbideAgainstDream(r) =>
      rooms[r].playerGuessStates["s1"][1]
        = <<"present", "absent", "absent", "present", "present">>

\* ABIDE has been evaluated against DREAM
C15_Witness ==
  /\ "R1" \in DOMAIN rooms
  /\ AbideAgainstDream("R1")
  /\ Len(rooms["R1"].playerGuessStates["s1"]) = 1

-----------------------------------------------------------------------------
(* C16: startGame from a player that is not the host of its room, or whose *)
(* room has fewer than 2 players, changes nothing and sends no             *)
(* gameStarted: from a player that is not the host nothing is sent at all, *)
(* from the host of a room with fewer than 2 players the only event is an  *)
(* error to the caller.                                                    *)

C16_RefusedStartChangesNothing ==
  \A s \in sockets :
    (/\ s \in DOMAIN players
     /\ players[s].roomId \in DOMAIN rooms
     /\ ~players[s].isHost \/ Len(rooms[players[s].roomId].players) < 2)
    => /\ ENABLED startGame(s)
       /\ ~ENABLED (/\ startGame(s)
                    /\ ~(/\ sent' = IF players[s].isHost
                                    THEN {Ev(s, "error",
                                             [message |-> "Need at least 2 players to start"])}
                                    ELSE {}
                         /\ UNCHANGED <<sockets, groups, rooms, orphans, players, pending>>))

\* s1, host and alone in a room that is not started, has just been refused
C16_Witness ==
  /\ sent = {Ev("s1", "error", [message |-> "Need at least 2 players to start"])}
  /\ "s1" \in DOMAIN players /\ players["s1"].isHost
  /\ players["s1"].roomId \in DOMAIN rooms
  /\ rooms[players["s1"].roomId].players = <<"s1">>
  /\ ~rooms[players["s1"].roomId].gameStarted

-----------------------------------------------------------------------------
(* C17: submitGuess from a connection without Player record, or whose room *)
(* is not registered, not started or finished, does nothing: no event is   *)
(* sent and nothing changes, whether the guess is well formed or not.      *)

\* guesses of every kind: of the list, unknown, malformed
AnyGuesses == {ABOUT, ABOVE, ADOBE, ZZZZZ, LowerAbout, ShortWord}

\* a guess of s would be addressed to no room in progress
NoGameFor(s) ==
  \/ s \notin DOMAIN players
  \/ players[s].roomId \notin DOMAIN rooms
  \/ ~InProgress(rooms[players[s].roomId])

C17_GuessOutsideGameIgnored ==
  \A s \in sockets, guess \in AnyGuesses :
    NoGameFor(s)
    => /\ ENABLED submitGuess(s, guess, MaxPending)
       /\ ~ENABLED (/\ submitGuess(s, guess, MaxPending)
                    /\ ~(/\ sent' = {}
                         /\ UNCHANGED <<sockets, groups, rooms, orphans, players, pending>>))

\* s1 has won, both players are connected, and the last handler sent nothing
C17_Witness ==
  /\ "R1" \in DOMAIN rooms
  /\ rooms["R1"].gameOver /\ rooms["R1"].winner = "s1"
  /\ sockets = {"s1", "s2"}
  /\ pending = EmptyBag
  /\ sent = {}

-----------------------------------------------------------------------------
(* C18: a guess rejected in a room in progress changes nothing and sends   *)
(* an error to the submitter alone.  A malformed guess, and a well-formed  *)
(* guess of a player who has 6 guesses or more, can only be answered by    *)
(* the error, with nothing changed; a handler that resumes on a lookup     *)
(* that resolved to false changes no room and no registry and sends the    *)
(* error to the submitter, if it is still connected, and to nobody else.   *)

\* the error that answers a guess of s before any lookup, "" if none does
EarlyRejection(s, guess) ==
  IF ~WellFormed(guess) THEN "Invalid guess. Must be 5 letters."
  ELSE IF Len(Guesses(rooms[players[s].roomId], s)) >= MaxGuesses
  THEN "You have already used all 6 guesses."
  ELSE ""

C18_RejectedGuessChangesNothing ==
  [][/\ \A s \in sockets, guess \in AnyGuesses :
          (~NoGameFor(s) /\ EarlyRejection(s, guess) # "")
          => /\ ENABLED submitGuess(s, guess, MaxPending)
             /\ ~ENABLED (/\ submitGuess(s, guess, MaxPending)
                          /\ ~(/\ sent' = {Ev(s, "error",
                                              [message |-> EarlyRejection(s, guess)])}
                               /\ UNCHANGED <<sockets, groups, rooms, orphans,
                                              players, pending>>))
     /\ \A p \in BagToSet(pending) :
          FALSE \in isValidWord(p.guess)
          => /\ ENABLED resumeGuess(p, FALSE)
             /\ ~ENABLED (/\ resumeGuess(p, FALSE)
                          /\ ~(/\ sent' = IF p.sock \in sockets
                                           THEN {Ev(p.sock, "error",
                                                    [message |-> "Not in dictionary"])}
                                           ELSE {}
                               /\ UNCHANGED <<sockets, groups, rooms, players>>))]_vars

\* s1 has used its 6 guesses in a game in progress and has just been refused
\* a seventh, while the lookup of a word of s2 outside the list is in flight
C18_Witness ==
  /\ "R1" \in DOMAIN rooms
  /\ InProgress(rooms["R1"])
  /\ Len(Guesses(rooms["R1"], "s1")) = MaxGuesses
  /\ sent = {Ev("s1", "error", [message |-> "You have already used all 6 guesses."])}
  /\ [sock |-> "s2", guess |-> ZZZZZ, room |-> "R1"] \in BagToSet(pending)

-----------------------------------------------------------------------------
(* C19: every restartGame by a connected player of a registered room       *)
(* leaves the room started, not finished, without winner, with a target    *)
(* word of the list, with the same player list and with an empty guess     *)
(* history and an empty evaluation history for every player of the list;   *)
(* every connected player of the list, and nobody else, is sent            *)
(* gameRestarted with its projection.  (A connected player with a Player   *)
(* record is on the list of its room, so that each restartGame sends at    *)
(* least one gameRestarted, by which the step is recognised.)              *)

\* the state after restartGame of the room registered under r
Restarted(r) ==
  /\ r \in DOMAIN rooms'
  /\ rooms'[r].gameStarted /\ ~rooms'[r].gameOver /\ rooms'[r].winner = NULL
  /\ rooms'[r].word \in VALID_WORDS
  /\ rooms'[r].players = rooms[r].players
  /\ \A pid \in Range(rooms[r].players) :
       /\ Guesses(rooms'[r], pid) = <<>>
       /\ GetOrEmpty(rooms'[r].playerGuessStates, pid) = <<>>
  /\ sent' = {Ev(pid, "gameRestarted", createGameStateForPlayer(rooms'[r], pid)) :
                pid \in Range(rooms[r].players) \cap sockets}
  /\ UNCHANGED <<sockets, players>>

C19_RestartResetsGame ==
  [][/\ \A s \in sockets \cap DOMAIN players :
          /\ players[s].roomId \in DOMAIN rooms
          /\ s \in Range(rooms[players[s].roomId].players)
     /\ (\E e \in sent' : e.type = "gameRestarted")
        => \E r \in DOMAIN rooms : Restarted(r)]_vars

\* the game of s1 and s2 has just been restarted while a lookup was in flight
C19_Witness ==
  /\ "R1" \in DOMAIN rooms
  /\ rooms["R1"].players = <<"s1", "s2">>
  /\ sent = {Ev(pid, "gameRestarted", createGameStateForPlayer(rooms["R1"], pid)) :
               pid \in {"s1", "s2"}}
  /\ InProgress(rooms["R1"])
  /\ pending # EmptyBag

-----------------------------------------------------------------------------
(* C20: in a started room, no step other than a restartGame removes an     *)
(* entry of a player's guess history or evaluation history: each history   *)
(* after the step extends the history before it.  Violated: startGame does *)
(* not test that the game is already started and resets the histories.     *)

IsPrefix(a, b) == Len(a) <= Len(b) /\ SubSeq(b, 1, Len(a)) = a

C20_HistoriesAppendOnly ==
  [][(\A e \in sent' : e.type # "gameRestarted")
     => \A r \in DOMAIN rooms \cap DOMAIN rooms', pid \in AllConns :
          rooms[r].gameStarted
          => /\ IsPrefix(Guesses(rooms[r], pid), Guesses(rooms'[r], pid))
             /\ IsPrefix(GetOrEmpty(rooms[r].playerGuessStates, pid),
                         GetOrEmpty(rooms'[r].playerGuessStates, pid))]_vars

-----------------------------------------------------------------------------
(* C21: every evaluation equals the reference evaluation.  Position i is   *)
(* correct iff guess and target hold the same letter there.  Among the     *)
(* other positions of the guess, taken left to right, one holding letter c *)
(* is present iff a target position holding c is still unconsumed, that is *)
(* iff the positions of the guess up to it that hold c and are not correct *)
(* are at most as many as the positions of the target that hold c and are  *)
(* not matched exactly (each present label consumes one of them, the       *)
(* leftmost); it is absent otherwise.  The evaluation is all correct       *)
(* exactly when the guess is the target.                                   *)

ReferenceLabel(guess, targetWord, i) ==
  IF guess[i] = targetWord[i] THEN "correct"
  ELSE LET sameBefore == {j \in 1..i : guess[j] = guess[i] /\ guess[j] # targetWord[j]}
           available == {j \in 1..WordLen : targetWord[j] = guess[i]
                                              /\ guess[j] # targetWord[j]}
       IN  IF Cardinality(sameBefore) <= Cardinality(available)
           THEN "present" ELSE "absent"

C21_EvaluationIsReference ==
  \A r \in DOMAIN rooms : \A pid \in DOMAIN rooms[r].playerGuessStates :
    \A i \in DOMAIN rooms[r].playerGuessStates[pid] :
      LET guess == Guesses(rooms[r], pid)[i]
          evaluation == rooms[r].playerGuessStates[pid][i]
      IN  /\ evaluation = [k \in 1..WordLen |-> ReferenceLabel(guess, rooms[r].word, k)]
          /\ AllCorrect(evaluation) <=> guess = rooms[r].word

\* the guess RERER against ERROR: present, present, correct, absent,
\* correct; then the guess ERROR against ERROR: all correct
C21_Witness ==
  /\ "R1" \in DOMAIN rooms
  /\ rooms["R1"].word = <<"E", "R", "R", "O", "R">>
  /\ Guesses(rooms["R1"], "s1") = << <<"R", "E", "R", "E", "R">>,
                                     <<"E", "R", "R", "O", "R">> >>
  /\ rooms["R1"].playerGuessStates["s1"] =
       << <<"present", "present", "correct", "absent", "correct">>,
          <<"correct", "correct", "correct", "correct", "correct">> >>

-----------------------------------------------------------------------------
(* C22: a room that is not started becomes started only by a startGame,    *)
(* which sends gameStarted, and only while it has 2 players; in particular *)
(* a restartGame leaves a room that was never started as it is.  Violated: *)
(* restartGame sets gameStarted whatever the state of the room.            *)

C22_StartedOnlyByStartGame ==
  [][\A r \in DOMAIN rooms \cap DOMAIN rooms' :
       (~rooms[r].gameStarted /\ rooms'[r].gameStarted)
       => /\ Len(rooms[r].players) >= 2
          /\ \E e \in sent' : e.type = "gameStarted"]_vars

-----------------------------------------------------------------------------
(* C23: in every room in progress some player of its list has fewer than 6 *)
(* guesses, so that the game can go on.  Violated: the end-of-game test of *)
(* a player who has used its guesses looks at the other player, and the    *)
(* histories of a missing other player are empty.                          *)

C23_SomebodyCanGuess ==
  \A r \in DOMAIN rooms :
    InProgress(rooms[r])
    => \E pid \in Range(rooms[r].players) : Len(Guesses(rooms[r], pid)) < MaxGuesses

-----------------------------------------------------------------------------
(* C24: in a room that is not started and has 2 players, the first player  *)
(* of the list can start the game: its Player record points at the room    *)
(* and has the host flag.  Violated: the host flag is given by createRoom  *)
(* only and is not passed on when the host leaves.                         *)

C24_WaitingPairHasHost ==
  \A r \in DOMAIN rooms :
    (~rooms[r].gameStarted /\ Len(rooms[r].players) = 2)
    => LET first == rooms[r].players[1]
       IN  /\ first \in sockets
           /\ first \in DOMAIN players
           /\ players[first].roomId = r
           /\ players[first].isHost

====
